---- MODULE Spec2Model ----
(***************************************************************************)
(* A model of wids.py: the indexed sharded dataset (ShardListDataset), its *)
(* shard cache (LRUShards over LRUCache), the opened shard readers         *)
(* (IndexedTarSamples) with the grouping of archive members into samples   *)
(* (splitname, group_by_key), the hashed-directory localizer               *)
(* (hash_localname) and the locality-preserving sampler                    *)
(* (ShardListSampler).                                                     *)
(*                                                                         *)
(* Python lists are modelled as TLA+ sequences: a Python position p is the *)
(* TLA+ position p + 1.  Indices kept in the state (index, shard_idx,      *)
(* inner_idx, the members of a group) are the Python values.  A file name  *)
(* is the sequence of its characters.                                      *)
(***************************************************************************)
EXTENDS Integers, Sequences, FiniteSets, TLC

\* ------------------------------------------------------------------ bounds
\* The longest shard list a dataset is built from.
MaxShards == 3
\* The largest nsamples of one shard descriptor.
MaxLen == 2
\* The largest cache_size (number of shards kept open).
MaxCap == 2
\* The number of cache accesses followed on one dataset.
MaxGets == 1
\* The number of LRUShards.get_shard calls followed on one cache.
MaxAccesses == 5
\* The last epoch a traversal is started in.
MaxEpoch == 1

VARIABLES
    shards,        \* ShardListDataset.shards: list of [url, nsamples]
    cache_size,    \* LRUShards(num_shards): capacity of the LRUCache
    lru,           \* LRUCache.cache: entries [key, value], least recent first
    itfs,          \* every IndexedTarSamples built so far, by identity
    accesses,      \* LRUShards.accesses
    misses,        \* LRUShards.misses
    last_missed,   \* LRUShards.last_missed
    warned,        \* check_cache_misses has replaced itself by a no-op
    cleanup_runs,  \* calls of DirectoryCleanup.run_cleanup so far
    warnings,      \* observer: cache miss rate warnings printed so far
    last_used,     \* observer: url -> value of accesses at its last hit or insertion
    history,       \* observer: the urls get_shard returned since the last clear
    ret,           \* observer: the last operation and its outcome
    seed,          \* ShardListSampler.seed
    shufflefirst,  \* ShardListSampler.shufflefirst
    ranges,        \* ShardListSampler.ranges: list of <<start, end>>
    epoch,         \* ShardListSampler.epoch
    rng,           \* ShardListSampler.rng: the generator's state, -1 before the first __iter__
    gens,          \* the generator objects made by __iter__, by slot
    built,         \* observer: the number of samplers built so far
    completed,     \* observer: [sampler, epoch, out] of every traversal run to exhaustion
    names,         \* IndexedTarSamples.reader.names(): the archive's member names
    samples,       \* IndexedTarSamples.samples: the groups of member positions
    tarret,        \* observer: the last IndexedTarSamples.__getitem__ and its outcome
    store,         \* the rows [url, path, checksum] of table cache in cache.db
    local          \* observer: the last call of the localizer and the path it returned

datasetvars == <<shards, cache_size, lru, itfs, accesses, misses, last_missed,
                 warned, cleanup_runs, warnings, last_used, history, ret>>
samplervars == <<seed, shufflefirst, ranges, epoch, rng, gens, built, completed>>
groupervars == <<names, samples, tarret>>
localizervars == <<store, local>>
othervars == <<groupervars, localizervars>>
vars == <<datasetvars, samplervars, othervars>>

\* ------------------------------------------------------- helper operators
RECURSIVE SumTo(_, _)
SumTo(s, k) == IF k = 0 THEN 0 ELSE SumTo(s, k - 1) + s[k]

\* ------------------------------------------- ShardListDataset.__init__
\* self.lengths = [shard["nsamples"] for shard in self.shards]
lengths == [k \in DOMAIN shards |-> shards[k].nsamples]

\* Running sums that leave out the element they stand at.
cumsum_exclusive(ls) == [k \in DOMAIN ls |-> SumTo(ls, k - 1)]

\* self.cum_lengths = np.cumsum(self.lengths)
cumsum(ls) == [k \in DOMAIN ls |-> SumTo(ls, k)]

cum_lengths == cumsum(lengths)

\* self.total_length = self.cum_lengths[-1]
total_length == cum_lengths[Len(cum_lengths)]

\* np.searchsorted(a, v, side="left"): the first position whose element is
\* at least v.
RECURSIVE bisect_left(_, _, _, _)
bisect_left(a, v, lo, hi) ==
    IF lo >= hi THEN lo
    ELSE LET mid == (lo + hi) \div 2
         IN  IF v <= a[mid + 1] THEN bisect_left(a, v, lo, mid)
                                ELSE bisect_left(a, v, mid + 1, hi)

\* np.searchsorted(a, v, side="right"): binary search for the first Python
\* position whose element exceeds v (len(a) when there is none).
RECURSIVE bisect_right(_, _, _, _)
bisect_right(a, v, lo, hi) ==
    IF lo >= hi THEN lo
    ELSE LET mid == (lo + hi) \div 2
         IN  IF v < a[mid + 1] THEN bisect_right(a, v, lo, mid)
                               ELSE bisect_right(a, v, mid + 1, hi)

searchsorted_left(a, v) == bisect_left(a, v, 0, Len(a))

searchsorted_right(a, v) == bisect_right(a, v, 0, Len(a))

\* ------------------------------------------------------------- LRUCache
\* wids_lru.LRUCache is imported by wids.py; it is modelled by its described
\* behaviour: a bounded cache ordered by recency that drops the least
\* recently used entry when over capacity and hands every dropped entry to
\* the release handler.
\* "url in self.lru": membership, recency untouched.
LRUCache_contains(c, key) == \E k \in DOMAIN c : c[k].key = key

LRUCache_pos(c, key) == CHOOSE k \in DOMAIN c : c[k].key = key

LRUCache_without(c, key) == SelectSeq(c, LAMBDA e : e.key # key)

\* self.lru[key]: on a hit the entry becomes the most recently used one.
LRUCache_getitem(c, key) ==
    IF LRUCache_contains(c, key)
    THEN [cache |-> Append(LRUCache_without(c, key), c[LRUCache_pos(c, key)]),
          value |-> c[LRUCache_pos(c, key)].value]
    ELSE [cache |-> c, value |-> 0]

\* self.lru[key] = value: insert as most recently used; while over capacity
\* drop the least recently used entry and hand it to the release handler.
LRUCache_setitem(c, capacity, key, value) ==
    LET put == Append(LRUCache_without(c, key), [key |-> key, value |-> value])
        over == IF Len(put) > capacity THEN Len(put) - capacity ELSE 0
    IN  [cache |-> SubSeq(put, over + 1, Len(put)),
         released |-> SubSeq(put, 1, over)]

\* self.lru.clear(): every entry is released and dropped.
LRUCache_clear(c) == [cache |-> <<>>, released |-> c]

\* ------------------------------------------------ splitname, group_by_key
\* A file name is the sequence of its characters.
Max(S) == CHOOSE x \in S : \A y \in S : y <= x

Min(S) == CHOOSE x \in S : \A y \in S : x <= y

Positions(fname, ch) == {p \in DOMAIN fname : fname[p] = ch}

\* "." in fname
has_dot(fname) == Positions(fname, ".") # {}

\* The match of r"^((?:.*/)?.*?)(\..*)$": the greedy (?:.*/)? ends at the
\* last "/" that still has a "." somewhere after it (position 0: the group
\* matches nothing), which is the last "/" before the last ".".
regex_dir_end(fname) ==
    Max({0} \cup {p \in Positions(fname, "/") :
                      p < Max(Positions(fname, "."))})

\* The lazy .*? ends before the first "." after that.
regex_dot(fname) ==
    Min({p \in Positions(fname, ".") : p > regex_dir_end(fname)})

\* splitname(fname), for a name that holds a "." (the function asserts it).
splitname(fname) ==
    [basename |-> SubSeq(fname, 1, regex_dot(fname) - 1),
     extension |-> SubSeq(fname, regex_dot(fname), Len(fname))]

\* Python's None, apart from every sequence of characters.
None == <<"None">>

\* groups.append(current) under "if current:"
flush(groups, current) ==
    IF current # <<>> THEN Append(groups, current) ELSE groups

\* The loop of group_by_key from names[i - 1] on (i: TLA+ position); the
\* members are recorded by their Python positions.
RECURSIVE group_by_key_from(_, _, _, _, _)
group_by_key_from(nms, i, groups, last_key, current) ==
    IF i > Len(nms) THEN flush(groups, current)
    ELSE IF ~has_dot(nms[i])
    THEN group_by_key_from(nms, i + 1, groups, last_key, current)
    ELSE IF splitname(nms[i]).basename # last_key
    THEN group_by_key_from(nms, i + 1, flush(groups, current),
                           splitname(nms[i]).basename, <<i - 1>>)
    ELSE group_by_key_from(nms, i + 1, groups, last_key,
                           Append(current, i - 1))

\* A grouping that never starts a new group on a change of key.
group_by_key_merged(nms) ==
    flush(<<>>, SelectSeq([p \in 1..Len(nms) |-> p - 1],
                          LAMBDA i : has_dot(nms[i + 1])))

\* A grouping that forgets the group still open at the end of the loop.
group_by_key_unflushed(nms) ==
    SubSeq(group_by_key_from(nms, 1, <<>>, None, <<>>), 1,
           Len(group_by_key_from(nms, 1, <<>>, None, <<>>)) - 1)

\* group_by_key(names)
group_by_key(nms) == group_by_key_from(nms, 1, <<>>, None, <<>>)

\* ---------------------------------------------------- IndexedTarSamples
\* IndexedTarSamples(stream, source=url, path=local): a new reader object
\* over the archive; samples is the number of groups the archive holds.
IndexedTarSamples_init(url, nsamples) ==
    [source |-> url, samples |-> nsamples, closed |-> 0]

\* IndexedTarSamples.close: self.reader.close()
IndexedTarSamples_close(itf) == [itf EXCEPT !.closed = @ + 1]

\* self.samples[idx]: Python list indexing, a negative idx counts from the
\* end.  The position read, or -1 for IndexError.
IndexedTarSamples_getitem(itf, idx) ==
    IF 0 <= idx /\ idx < itf.samples THEN idx
    ELSE IF idx < 0 /\ -idx <= itf.samples THEN itf.samples + idx
    ELSE -1

\* A Python dict is the sequence of its <<key, value>> items in insertion
\* order.  d[k] = v
dict_set(d, k, v) ==
    IF \E p \in DOMAIN d : d[p][1] = k
    THEN [p \in DOMAIN d |-> IF d[p][1] = k THEN <<k, v>> ELSE d[p]]
    ELSE Append(d, <<k, v>>)

\* The reserved key "__key__"; no extension equals it.
KeyField == <<"__key__">>

\* key = key or k
key_or(key, k) == IF key = None \/ key = <<>> THEN k ELSE key

\* The loop of IndexedTarSamples.__getitem__ over the rest of indexes;
\* self.reader.get_file(i) returns the i-th name and its data, the data
\* being identified by the member's position.
RECURSIVE read_members(_, _, _, _)
read_members(nms, indexes, key, sample) ==
    IF indexes = <<>>
    THEN [kind |-> "sample", sample |-> dict_set(sample, KeyField, key)]
    ELSE IF key_or(key, splitname(nms[Head(indexes) + 1]).basename)
                # splitname(nms[Head(indexes) + 1]).basename
    THEN [kind |-> "AssertionError", sample |-> <<>>]
    ELSE read_members(
             nms, Tail(indexes),
             key_or(key, splitname(nms[Head(indexes) + 1]).basename),
             dict_set(sample, splitname(nms[Head(indexes) + 1]).extension,
                      Head(indexes)))

\* IndexedTarSamples.__getitem__(idx) once self.samples[idx] is resolved to
\* position pos (-1: IndexError).
IndexedTarSamples_read(nms, groups, pos) ==
    IF pos < 0 THEN [kind |-> "IndexError", sample |-> <<>>]
    ELSE read_members(nms, groups[pos + 1], None, <<>>)

\* IndexedTarSamples.__getitem__(idx) of a reader over names nms.
IndexedTarSamples_sample(nms, groups, idx) ==
    IndexedTarSamples_read(
        nms, groups,
        IndexedTarSamples_getitem([samples |-> Len(groups)], idx))

\* ------------------------------------------------------------ LRUShards
\* A release handler that drops the reader without closing it.
release_handler_noclose(objs, entry) == objs

\* LRUShards.release_handler(key, value): value.close()
release_handler(objs, entry) ==
    [objs EXCEPT ![entry.value] = IndexedTarSamples_close(@)]

RECURSIVE release_all(_, _)
release_all(objs, entries) ==
    IF entries = <<>> THEN objs
    ELSE release_all(release_handler(objs, Head(entries)), Tail(entries))

\* A clear that forgets the entries without handing them to the cache's
\* clear (a fresh empty cache in place of the old one).
LRUShards_clear_drop(c) == [c EXCEPT !.lru = <<>>]

\* LRUShards.clear: self.lru.clear()
LRUShards_clear(c) ==
    LET r == LRUCache_clear(c.lru)
    IN  [c EXCEPT !.lru = r.cache, !.itfs = release_all(c.itfs, r.released)]

\* LRUShards.get_shard, the miss branch after a successful fetch: itf is the
\* new reader, put the cache after self.lru[url] = itf, got the cache after
\* the closing self.lru[url].
get_shard_miss(counted, objs, put, got) ==
    [state |-> [counted EXCEPT !.lru = got.cache,
                               !.itfs = release_all(objs, put.released),
                               !.misses = @ + 1,
                               !.last_missed = TRUE],
     raised |-> FALSE, value |-> got.value, released |-> put.released,
     fetches |-> 1]

\* A miss that builds the reader and returns it without storing it.
get_shard_insert_unstored(counted, capacity, url, objs, put) ==
    [state |-> [counted EXCEPT !.itfs = objs, !.misses = @ + 1,
                               !.last_missed = TRUE],
     raised |-> FALSE, value |-> Len(objs), released |-> <<>>, fetches |-> 1]

get_shard_insert(counted, capacity, url, objs, put) ==
    get_shard_miss(counted, objs, put, LRUCache_getitem(put.cache, url))

\* A hit that returns the entry without reading it through the cache, so its
\* recency is not refreshed.
get_shard_hit_norefresh(counted, got) ==
    [state |-> [counted EXCEPT !.last_missed = FALSE],
     raised |-> FALSE, value |-> got.value, released |-> <<>>, fetches |-> 0]

\* A hit that leaves the flag of the access before it.
get_shard_hit_stale(counted, got) ==
    [state |-> [counted EXCEPT !.lru = got.cache],
     raised |-> FALSE, value |-> got.value, released |-> <<>>, fetches |-> 0]

\* LRUShards.get_shard, the hit branch: got is the cache after self.lru[url].
get_shard_hit(counted, got) ==
    [state |-> [counted EXCEPT !.lru = got.cache, !.last_missed = FALSE],
     raised |-> FALSE, value |-> got.value, released |-> <<>>, fetches |-> 0]

\* A get_shard that counts the miss before it fetches.
LRUShards_get_shard_countfirst(c, capacity, url, nsamples, fetch_ok) ==
    IF ~LRUCache_contains(c.lru, url)
    THEN IF ~fetch_ok
         THEN [state |-> [c EXCEPT !.accesses = @ + 1, !.misses = @ + 1],
               raised |-> TRUE, value |-> 0, released |-> <<>>,
               fetches |-> 1]
         ELSE get_shard_insert(
                  [c EXCEPT !.accesses = @ + 1], capacity, url,
                  Append(c.itfs, IndexedTarSamples_init(url, nsamples)),
                  LRUCache_setitem(c.lru, capacity, url, Len(c.itfs) + 1))
    ELSE get_shard_hit([c EXCEPT !.accesses = @ + 1],
                       LRUCache_getitem(c.lru, url))

\* LRUShards.get_shard(url).  c holds the fields of the LRUShards object,
\* nsamples the number of samples of the archive behind url, fetch_ok
\* whether download_and_open and the reader's construction succeed; fetches
\* counts the calls of download_and_open.
LRUShards_get_shard(c, capacity, url, nsamples, fetch_ok) ==
    IF ~LRUCache_contains(c.lru, url)
    THEN IF ~fetch_ok
         THEN [state |-> [c EXCEPT !.accesses = @ + 1], raised |-> TRUE,
               value |-> 0, released |-> <<>>, fetches |-> 1]
         ELSE get_shard_insert(
                  [c EXCEPT !.accesses = @ + 1], capacity, url,
                  Append(c.itfs, IndexedTarSamples_init(url, nsamples)),
                  LRUCache_setitem(c.lru, capacity, url, Len(c.itfs) + 1))
    ELSE get_shard_hit([c EXCEPT !.accesses = @ + 1],
                       LRUCache_getitem(c.lru, url))

\* ----------------------------------------------------- ShardListDataset
\* check_cache_misses: accesses > 100 and misses / accesses > 0.3
WarnAccesses == 100
WarnRateNum == 3
WarnRateDen == 10

check_cache_misses(acc, mis) ==
    acc > WarnAccesses /\ mis * WarnRateDen > WarnRateNum * acc

\* The fields of the LRUShards object self.cache.
cache == [lru |-> lru, itfs |-> itfs, accesses |-> accesses,
          misses |-> misses, last_missed |-> last_missed]

\* A get_shard that runs the cleanup collaborator after every access that
\* returned.
get_shard_result_always(shard_idx, inner_idx, url, g) ==
    [state |-> g.state,
     kind |-> IF g.raised THEN "FetchError" ELSE "shard",
     shard_idx |-> shard_idx, inner_idx |-> inner_idx,
     url |-> url, itf |-> g.value, accessed |-> TRUE,
     missed |-> ~g.raised /\ g.state.last_missed,
     released |-> g.released, fetches |-> g.fetches,
     cleanup |-> IF ~g.raised THEN 1 ELSE 0]

\* ShardListDataset.get_shard after self.cache.get_shard(url) returned g:
\* the cleanup collaborator runs after a miss.
get_shard_result(shard_idx, inner_idx, url, g) ==
    [state |-> g.state,
     kind |-> IF g.raised THEN "FetchError" ELSE "shard",
     shard_idx |-> shard_idx, inner_idx |-> inner_idx,
     url |-> url, itf |-> g.value, accessed |-> TRUE,
     missed |-> ~g.raised /\ g.state.last_missed,
     released |-> g.released, fetches |-> g.fetches,
     cleanup |-> IF ~g.raised /\ g.state.last_missed THEN 1 ELSE 0]

\* ShardListDataset.get_shard once shard_idx and inner_idx are known:
\* self.shards[shard_idx] raises IndexError when shard_idx = len(shards).
get_shard_at(c, shard_idx, inner_idx, fetch_ok) ==
    IF shard_idx >= Len(shards)
    THEN [state |-> c, kind |-> "IndexError", shard_idx |-> shard_idx,
          inner_idx |-> inner_idx, url |-> 0, itf |-> 0, accessed |-> FALSE,
          missed |-> FALSE, released |-> <<>>, fetches |-> 0, cleanup |-> 0]
    ELSE get_shard_result(
             shard_idx, inner_idx, shards[shard_idx + 1].url,
             LRUShards_get_shard(c, cache_size, shards[shard_idx + 1].url,
                                 shards[shard_idx + 1].nsamples, fetch_ok))

\* inner_idx of ShardListDataset.get_shard
inner_index(shard_idx, index) ==
    IF shard_idx = 0 THEN index ELSE index - cum_lengths[shard_idx]

\* ShardListDataset.get_shard(index): the shard and the index within it.
ShardListDataset_get_shard(c, index, fetch_ok) ==
    get_shard_at(c, searchsorted_right(cum_lengths, index),
                 inner_index(searchsorted_right(cum_lengths, index), index),
                 fetch_ok)

\* A check that is not replaced by a no-op once it has printed.
getitem_result_rewarn(s, pos) ==
    IF pos < 0
    THEN [s EXCEPT !.kind = "IndexError"] @@ [pos |-> -1, warn |-> FALSE]
    ELSE [s EXCEPT !.kind = "sample"] @@
         [pos |-> pos,
          warn |-> check_cache_misses(s.state.accesses, s.state.misses)]

\* ShardListDataset.__getitem__ after get_shard returned s and shard[inner_idx]
\* read position pos (-1: IndexError), then the cache-health check.
getitem_result(s, pos) ==
    IF pos < 0
    THEN [s EXCEPT !.kind = "IndexError"] @@ [pos |-> -1, warn |-> FALSE]
    ELSE [s EXCEPT !.kind = "sample"] @@
         [pos |-> pos,
          warn |-> ~warned /\ check_cache_misses(s.state.accesses,
                                                 s.state.misses)]

getitem_of(s) ==
    IF s.kind # "shard" THEN s @@ [pos |-> -1, warn |-> FALSE]
    ELSE getitem_result(
             s, IndexedTarSamples_getitem(s.state.itfs[s.itf], s.inner_idx))

\* ShardListDataset.__getitem__(index)
ShardListDataset_getitem(c, index, fetch_ok) ==
    getitem_of(ShardListDataset_get_shard(c, index, fetch_ok))

\* ShardListDataset.close: self.cache.clear()
ShardListDataset_close(c) == LRUShards_clear(c)

\* ------------------------------------------------------------- actions
\* The shard lists a dataset is built from: at least one descriptor (the
\* constructor reads cum_lengths[-1]); the k-th descriptor's url is k.
ShardLists ==
    UNION {[1..n -> 0..MaxLen] : n \in 1..MaxShards}

\* The indices tried: every valid one and some on either side.
Indices == (0 - MaxLen - 1)..(total_length + 1)

NoRet == [op |-> "init", index |-> 0, kind |-> "none", shard_idx |-> 0,
          inner_idx |-> 0, url |-> 0, itf |-> 0, pos |-> -1,
          accessed |-> FALSE, missed |-> FALSE, released |-> <<>>,
          fetches |-> 0]

InitCacheFields ==
    /\ lru = <<>>
    /\ itfs = <<>>
    /\ accesses = 0
    /\ misses = 0
    /\ last_missed = FALSE
    /\ warned = FALSE
    /\ cleanup_runs = 0
    /\ warnings = 0
    /\ last_used = [u \in 1..Len(shards) |-> 0]
    /\ history = <<>>
    /\ ret = NoRet

\* No sampler has been built.
NoGen == [pc |-> "none", epoch0 |-> 0, shardperm |-> <<>>, k |-> 0,
          indexes |-> <<>>, j |-> 0, out |-> <<>>]

Slots == {1, 2}

\* The seeds samplers are built with.
Seeds == {0, 1}

\* The samplers built with the same arguments: the first and one more.
Samplers == {1, 2}

NoSampler ==
    /\ seed = 0
    /\ shufflefirst = FALSE
    /\ ranges = <<>>
    /\ epoch = 0
    /\ rng = -1
    /\ gens = [g \in Slots |-> NoGen]
    /\ built = 0
    /\ completed = {}

\* No archive has been indexed on its own.
NoGot == [idx |-> 0, kind |-> "none", sample |-> <<>>]

NoGrouper ==
    /\ names = <<>>
    /\ samples = <<>>
    /\ tarret = NoGot

\* No localizer has been made.
NoLocal == [shard |-> <<>>, called |-> FALSE, path |-> <<>>]

NoLocalizer ==
    /\ store = <<>>
    /\ local = NoLocal

\* ShardListDataset(shards, cache_size=...)
Init ==
    /\ \E ls \in ShardLists :
           shards = [k \in DOMAIN ls |-> [url |-> k, nsamples |-> ls[k]]]
    /\ cache_size \in 1..MaxCap
    /\ InitCacheFields
    /\ NoSampler
    /\ NoGrouper
    /\ NoLocalizer

\* dataset[index]
getitem(index, fetch_ok) ==
    /\ \E r \in {ShardListDataset_getitem(cache, index, fetch_ok)} :
           /\ lru' = r.state.lru
           /\ itfs' = r.state.itfs
           /\ accesses' = r.state.accesses
           /\ misses' = r.state.misses
           /\ last_missed' = r.state.last_missed
           /\ warned' = (warned \/ r.warn)
           /\ cleanup_runs' = cleanup_runs + r.cleanup
           /\ warnings' = warnings + (IF r.warn THEN 1 ELSE 0)
           /\ last_used' = IF r.accessed /\ r.kind # "FetchError"
                           THEN [last_used EXCEPT ![r.url] = r.state.accesses]
                           ELSE last_used
           /\ history' = IF r.accessed /\ r.kind # "FetchError"
                         THEN Append(history, r.url) ELSE history
           /\ ret' = [op |-> "getitem", index |-> index, kind |-> r.kind,
                      shard_idx |-> r.shard_idx, inner_idx |-> r.inner_idx,
                      url |-> r.url, itf |-> r.itf, pos |-> r.pos,
                      accessed |-> r.accessed, missed |-> r.missed,
                      released |-> r.released, fetches |-> r.fetches]
    /\ UNCHANGED <<shards, cache_size, samplervars, othervars>>

\* dataset.close()
close ==
    /\ \E c \in {ShardListDataset_close(cache)} :
           /\ lru' = c.lru
           /\ itfs' = c.itfs
           /\ history' = <<>>
           /\ ret' = [NoRet EXCEPT !.op = "close", !.released = lru]
    /\ UNCHANGED <<shards, cache_size, accesses, misses, last_missed, warned,
                   cleanup_runs, warnings, last_used, samplervars, othervars>>

Next ==
    \/ \E index \in Indices, fetch_ok \in BOOLEAN :
           accesses < MaxGets /\ getitem(index, fetch_ok)
    \/ close

Spec == Init /\ [][Next]_vars

\* ------------------------------------------- the Shard Cache on its own
\* LRUShards(num_shards) used through get_shard and clear, over MaxShards
\* shard urls whose archives hold MaxLen samples each.
InitCache ==
    /\ shards = [k \in 1..MaxShards |-> [url |-> k, nsamples |-> MaxLen]]
    /\ cache_size \in 1..MaxCap
    /\ InitCacheFields
    /\ NoSampler
    /\ NoGrouper
    /\ NoLocalizer

\* cache.get_shard(url)
get_shard(url, fetch_ok) ==
    /\ \E g \in {LRUShards_get_shard(cache, cache_size, url,
                                     shards[url].nsamples, fetch_ok)} :
           /\ lru' = g.state.lru
           /\ itfs' = g.state.itfs
           /\ accesses' = g.state.accesses
           /\ misses' = g.state.misses
           /\ last_missed' = g.state.last_missed
           /\ last_used' = IF g.raised THEN last_used
                           ELSE [last_used EXCEPT ![url] = g.state.accesses]
           /\ history' = IF g.raised THEN history ELSE Append(history, url)
           /\ ret' = [NoRet EXCEPT
                        !.op = "get_shard",
                        !.kind = IF g.raised THEN "FetchError" ELSE "shard",
                        !.url = url, !.itf = g.value, !.accessed = TRUE,
                        !.missed = ~g.raised /\ g.state.last_missed,
                        !.released = g.released, !.fetches = g.fetches]
    /\ UNCHANGED <<shards, cache_size, warned, cleanup_runs, warnings,
                   samplervars, othervars>>

\* cache.clear()
clear ==
    /\ \E c \in {LRUShards_clear(cache)} :
           /\ lru' = c.lru
           /\ itfs' = c.itfs
           /\ history' = <<>>
           /\ ret' = [NoRet EXCEPT !.op = "clear", !.released = lru]
    /\ UNCHANGED <<shards, cache_size, accesses, misses, last_missed, warned,
                   cleanup_runs, warnings, last_used, samplervars, othervars>>

NextCache ==
    \/ \E url \in 1..Len(shards), fetch_ok \in BOOLEAN :
           accesses < MaxAccesses /\ get_shard(url, fetch_ok)
    \/ clear

SpecCache == InitCache /\ [][NextCache]_vars

\* ------------------------------------- long runs of dataset accesses
\* The accesses followed past the WarnAccesses-th one.
MaxTail == 8

\* The access counts, besides those around WarnAccesses, at which a run of
\* accesses may change between going round the shards and staying on one.
SwitchPoints == {1, 40, 75}

\* MaxShards shards of one sample each: index k is the sample of url k + 1.
InitWarn ==
    /\ shards = [k \in 1..MaxShards |-> [url |-> k, nsamples |-> 1]]
    /\ cache_size \in 1..MaxCap
    /\ InitCacheFields
    /\ NoSampler
    /\ NoGrouper
    /\ NoLocalizer

\* The url of the last access that returned a shard (0: none yet).
LastUrl == IF history = <<>> THEN 0 ELSE history[Len(history)]

\* The last two accesses that returned went to the same shard.
Repeating ==
    Len(history) >= 2 /\ history[Len(history)] = history[Len(history) - 1]

\* The access pattern is free to change at this access.
Free == accesses \in SwitchPoints \/ accesses >= WarnAccesses - 2

\* The indices a run asks for next: the shard after the last one, round
\* robin, or the last one again.
Scheduled(index) ==
    \/ index = LastUrl % Len(shards) /\ (Free \/ ~Repeating)
    \/ history # <<>> /\ index = LastUrl - 1 /\ (Free \/ Repeating)

\* The fetch may fail at the accesses around the WarnAccesses-th one.
MayFail == accesses \in {WarnAccesses, WarnAccesses + 1}

NextWarn ==
    \E index \in 0..(total_length - 1), fetch_ok \in BOOLEAN :
        /\ accesses < WarnAccesses + MaxTail
        /\ Scheduled(index)
        /\ (fetch_ok \/ MayFail)
        /\ getitem(index, fetch_ok)

SpecWarn == InitWarn /\ [][NextWarn]_vars

\* -------------------------------------- the Sample Grouper on its own
\* The longest list of member names of an archive.
MaxNames == 3

\* The member names tried: a.j a.t b.j (keys and extensions that agree and
\* differ), R (no "."), d.v/f (a "." only in the directory part), .j (empty
\* key), d/a.j (a directory part), a.t.g (two "."), d.v/a.j.
MemberNames ==
    {<<"a", ".", "j">>, <<"a", ".", "t">>, <<"b", ".", "j">>, <<"R">>,
     <<"d", ".", "v", "/", "f">>, <<".", "j">>,
     <<"d", "/", "a", ".", "j">>, <<"a", ".", "t", ".", "g">>,
     <<"d", ".", "v", "/", "a", ".", "j">>}

\* a.jpg a.txt b.jpg c.jpg c.txt
FiveNames ==
    <<<<"a", ".", "j", "p", "g">>, <<"a", ".", "t", "x", "t">>,
      <<"b", ".", "j", "p", "g">>, <<"c", ".", "j", "p", "g">>,
      <<"c", ".", "t", "x", "t">>>>

NameLists ==
    UNION {[1..n -> MemberNames] : n \in 0..MaxNames} \cup {FiveNames}

\* No dataset is built.
NoDataset ==
    /\ shards = <<>>
    /\ cache_size = 1
    /\ InitCacheFields

\* IndexedTarSamples(tar_file): all_files = self.reader.names();
\* self.samples = group_by_key(all_files)
InitGrouper ==
    /\ NoDataset
    /\ NoSampler
    /\ NoLocalizer
    /\ names \in NameLists
    /\ samples = group_by_key(names)
    /\ tarret = NoGot

\* reader[idx] on the opened archive
tar_getitem(idx) ==
    /\ \E r \in {IndexedTarSamples_sample(names, samples, idx)} :
           tarret' = [idx |-> idx, kind |-> r.kind, sample |-> r.sample]
    /\ UNCHANGED <<datasetvars, samplervars, localizervars, names, samples>>

NextGrouper == \E idx \in (0 - 1)..Len(samples) : tar_getitem(idx)

SpecGrouper == InitGrouper /\ [][NextGrouper]_vars

\* ------------------------------------------------------ hash_localname
\* A shard identifier is the sequence of its "/"-separated segments, each a
\* number; the segment PipePrefix leads a pipe-style identifier ("pipe:...").
PipePrefix == 0

\* shard.startswith("pipe:")
is_pipe(shard) == shard # <<>> /\ Head(shard) = PipePrefix

\* urldir(shard): the identifier without its last segment.
urldir(shard) == SubSeq(shard, 1, Len(shard) - 1)

\* os.path.basename(urlparse(shard).path): the last segment.
basename(shard) == shard[Len(shard)]

\* hashlib.sha256(...).digest(), base64 encoded and cut to width characters:
\* a function of the text alone; different texts may collide.
RECURSIVE digest(_, _)
digest(text, acc) ==
    IF text = <<>> THEN acc
    ELSE digest(Tail(text), (acc * 31 + Head(text) + 1) % 64)

sha256_b64(text, width) == digest(text, width)

\* "INSERT OR REPLACE INTO cache VALUES (?, ?, ?)" on a table whose primary
\* key is url: a row with the same url is dropped, the new row is added.
insert_or_replace(rows, row) ==
    Append(SelectSeq(rows, LAMBDA r : r.url # row.url), row)

\* os.path.join(dldir, name)
path_join(name) == [dir |-> "dldir", name |-> name]

\* The function f made by hash_localname(dldir), called as f(shard): the
\* rows of the table after the call and the path returned.
hash_localname_f(rows, shard) ==
    IF is_pipe(shard)
    THEN [rows |-> rows,
          path |-> path_join(<<"pipe__", sha256_b64(shard, 32)>>)]
    ELSE [rows |-> insert_or_replace(
                       rows,
                       [url |-> shard,
                        path |-> <<"data__", sha256_b64(urldir(shard), 16),
                                   "__", basename(shard)>>,
                        checksum |-> None]),
          path |-> path_join(<<"data__", sha256_b64(urldir(shard), 16),
                               "__", basename(shard)>>)]

\* The shard identifiers tried: files of two directories with names in
\* common, a file one directory deeper, and two pipe-style identifiers.
ShardIds ==
    {<<1, 1>>, <<1, 2>>, <<2, 1>>, <<1, 1, 1>>,
     <<PipePrefix, 1>>, <<PipePrefix, 2, 1>>}

\* The tables an earlier run or another tool may have left in cache.db:
\* none, or one row that names some shard with a name of its own.
LeftRows ==
    {<<>>} \cup
    {<<[url |-> u, path |-> <<"data__", 0, "__", 0>>, checksum |-> None]>> :
        u \in ShardIds}

\* hash_localname(dldir): CREATE TABLE IF NOT EXISTS keeps the rows there.
InitLocalizer ==
    /\ NoDataset
    /\ NoSampler
    /\ NoGrouper
    /\ store \in LeftRows
    /\ local = NoLocal

\* f(shard)
localname(shard) ==
    /\ \E r \in {hash_localname_f(store, shard)} :
           /\ store' = r.rows
           /\ local' = [shard |-> shard, called |-> TRUE, path |-> r.path]
    /\ UNCHANGED <<datasetvars, samplervars, groupervars>>

NextLocalizer == \E shard \in ShardIds : localname(shard)

SpecLocalizer == InitLocalizer /\ [][NextLocalizer]_vars

\* ------------------------------------------------------ random.Random
\* random.Random is library code.  Its generator is modelled by a 16-bit
\* linear congruential generator: like the library's, a deterministic
\* function of the seed it is built from.
Random(a) == a % 65536

RngNext(st) == (st * 25173 + 13849) % 65536

RECURSIVE pow2(_)
pow2(k) == IF k = 0 THEN 1 ELSE 2 * pow2(k - 1)

\* int.bit_length
RECURSIVE bit_length(_)
bit_length(n) == IF n = 0 THEN 0 ELSE 1 + bit_length(n \div 2)

\* Random.getrandbits(k): the top k bits of the next state.
getrandbits(st, k) ==
    [state |-> RngNext(st), value |-> RngNext(st) \div pow2(16 - k)]

\* Random._randbelow(n): draw bit_length(n) bits until the value is below n.
RECURSIVE randbelow_retry(_, _, _)
randbelow_retry(n, k, drawn) ==
    IF drawn.value < n THEN drawn
    ELSE randbelow_retry(n, k, getrandbits(drawn.state, k))

randbelow(st, n) ==
    randbelow_retry(n, bit_length(n), getrandbits(st, bit_length(n)))

\* x[i], x[j] = x[j], x[i] (Python positions)
swap(x, i, j) == [x EXCEPT ![i + 1] = x[j + 1], ![j + 1] = x[i + 1]]

\* Random.shuffle(x): for i in reversed(range(1, len(x))):
\*     j = randbelow(i + 1); x[i], x[j] = x[j], x[i]
RECURSIVE shuffle_from(_, _, _)
shuffle_swap(x, i, drawn) ==
    shuffle_from(swap(x, i, drawn.value), i - 1, drawn.state)

shuffle_from(x, i, st) ==
    IF i < 1 THEN [list |-> x, state |-> st]
    ELSE shuffle_swap(x, i, randbelow(st, i + 1))

shuffle(x, st) == shuffle_from(x, Len(x) - 1, st)

\* ---------------------------------------------------- ShardListSampler
\* self.seed + 1289738273 * self.epoch
EpochStride == 1289738273

\* list(range(start, end))
range_list(start, end) ==
    [p \in 1..(IF end > start THEN end - start ELSE 0) |-> start + p - 1]

\* Ranges that all start at 0 (start never advanced).
ShardListSampler_ranges_from_zero(ls) == [k \in DOMAIN ls |-> <<0, ls[k]>>]

\* ShardListSampler.__init__: ranges.append((start, start + l)); start += l
ShardListSampler_ranges(ls) ==
    [k \in DOMAIN ls |-> <<SumTo(ls, k - 1), SumTo(ls, k - 1) + ls[k]>>]

\* The seed of the generator of one epoch.  Python's integers do not
\* overflow; the stride is reduced before the product, which leaves the
\* generator built from the sum unchanged.
epoch_seed(sd, ep) == sd + (EpochStride % 65536) * ep

\* A generator that keeps the generator an earlier __iter__ left behind.
iter_rng_keep(old, sd, ep) == IF old = -1 THEN Random(epoch_seed(sd, ep)) ELSE old

\* __iter__: self.rng = random.Random(self.seed + 1289738273 * self.epoch)
iter_rng(old, sd, ep) == Random(epoch_seed(sd, ep))

\* The fields of the sampler object a generator reads and writes.
sampler == [epoch |-> epoch, rng |-> rng]

\* The body of __iter__ from "for shard in shardperm" at position k (TLA+
\* position in shardperm) to the next yield or to the end of the function.
RECURSIVE gen_run(_, _, _)

\* self.rng.shuffle(indexes); yield from indexes: an empty block yields
\* nothing and the loop goes on, otherwise the first index is yielded.
gen_block(S, G, k, sh) ==
    IF sh.list = <<>>
    THEN gen_run([S EXCEPT !.rng = sh.state], G, k + 1)
    ELSE [sampler |-> [S EXCEPT !.rng = sh.state],
          gen |-> [G EXCEPT !.pc = "suspended", !.k = k, !.indexes = sh.list,
                            !.j = 1, !.out = Append(@, sh.list[1])]]

\* Blocks dealt out by stride: the block of shard n holds the indices
\* n, n + nshards, n + 2 * nshards, ... below the total.
strided(n, step, total) ==
    [p \in 1..((total - n + step - 1) \div step) |-> n + (p - 1) * step]

gen_run_strided(S, G, k) ==
    IF k > Len(G.shardperm)
    THEN [sampler |-> [S EXCEPT !.epoch = @ + 1],
          gen |-> [G EXCEPT !.pc = "done", !.k = k, !.indexes = <<>>, !.j = 0]]
    ELSE gen_block(S, G, k,
                   shuffle(strided(G.shardperm[k], Len(ranges),
                                   ranges[Len(ranges)][2]), S.rng))

gen_run(S, G, k) ==
    IF k > Len(G.shardperm)
    THEN [sampler |-> [S EXCEPT !.epoch = @ + 1],
          gen |-> [G EXCEPT !.pc = "done", !.k = k, !.indexes = <<>>, !.j = 0]]
    ELSE gen_block(S, G, k,
                   shuffle(range_list(ranges[G.shardperm[k] + 1][1],
                                      ranges[G.shardperm[k] + 1][2]), S.rng))

\* __iter__ after shardperm is settled (sh: the list and the generator state).
gen_started(S, G, sh) ==
    gen_run([S EXCEPT !.rng = sh.state],
            [G EXCEPT !.epoch0 = S.epoch, !.shardperm = sh.list], 1)

\* An __iter__ that shuffles the shards in every epoch.
gen_start_with_shuffled(S, G, st) ==
    gen_started(S, G, shuffle(range_list(0, Len(ranges)), st))

\* __iter__ from its first line: a new generator from (seed, epoch), the
\* shards in order, shuffled if self.epoch > 0 or self.shufflefirst.
gen_start_with(S, G, st) ==
    gen_started(S, G,
        IF S.epoch > 0 \/ shufflefirst
        THEN shuffle(range_list(0, Len(ranges)), st)
        ELSE [list |-> range_list(0, Len(ranges)), state |-> st])

gen_start(S, G) == gen_start_with(S, G, iter_rng(S.rng, seed, S.epoch))

\* next(generator): run the body to its next yield or to its end.
gen_next(S, G) ==
    IF G.pc = "created" THEN gen_start(S, G)
    ELSE IF G.j < Len(G.indexes)
    THEN [sampler |-> S,
          gen |-> [G EXCEPT !.j = @ + 1, !.out = Append(@, G.indexes[G.j + 1])]]
    ELSE gen_run(S, G, G.k + 1)

\* ShardListSampler(dataset, seed=sd, shufflefirst=sf) over dataset.lengths
ShardListSampler_init(sd, sf) ==
    /\ seed' = sd
    /\ shufflefirst' = sf
    /\ ranges' = ShardListSampler_ranges(lengths)
    /\ epoch' = 0
    /\ rng' = -1
    /\ gens' = [g \in Slots |-> NoGen]

Live(g) == gens[g].pc \in {"created", "suspended"}

\* A dataset and a sampler built over its lengths.
InitSampler ==
    /\ \E ls \in ShardLists :
           shards = [k \in DOMAIN ls |-> [url |-> k, nsamples |-> ls[k]]]
    /\ cache_size = 1
    /\ InitCacheFields
    /\ seed \in Seeds
    /\ shufflefirst \in BOOLEAN
    /\ ranges = ShardListSampler_ranges(lengths)
    /\ epoch = 0
    /\ rng = -1
    /\ gens = [g \in Slots |-> NoGen]
    /\ built = 1
    /\ completed = {}
    /\ NoGrouper
    /\ NoLocalizer

\* Another sampler built with the same arguments replaces the one before,
\* once no generator of that one is in use.
construct ==
    /\ \A g \in Slots : ~Live(g)
    /\ ShardListSampler_init(seed, shufflefirst)
    /\ built' = built + 1
    /\ UNCHANGED <<datasetvars, othervars, completed>>

\* iter(sampler): a new generator object; no line of __iter__ has run yet.
iter(g) ==
    /\ ~Live(g)
    /\ gens' = [gens EXCEPT ![g] = [NoGen EXCEPT !.pc = "created"]]
    /\ UNCHANGED <<datasetvars, othervars, seed, shufflefirst, ranges, epoch, rng, built,
                   completed>>

\* next(generator) on a generator that has not ended.
next(g) ==
    /\ Live(g)
    /\ \E r \in {gen_next(sampler, gens[g])} :
           /\ epoch' = r.sampler.epoch
           /\ rng' = r.sampler.rng
           /\ gens' = [gens EXCEPT ![g] = r.gen]
           /\ completed' = IF r.gen.pc = "done"
                           THEN completed \cup {[sampler |-> built,
                                                 epoch |-> r.gen.epoch0,
                                                 out |-> r.gen.out]}
                           ELSE completed
    /\ UNCHANGED <<datasetvars, othervars, seed, shufflefirst, ranges, built>>

\* The generator is dropped before it ended: the traversal is abandoned.
abandon(g) ==
    /\ Live(g)
    /\ gens' = [gens EXCEPT ![g].pc = "closed"]
    /\ UNCHANGED <<datasetvars, othervars, seed, shufflefirst, ranges, epoch, rng, built,
                   completed>>

\* Traversals of one sampler at a time, one after the other: a generator
\* is made only when no other is in use.
NextSamplerAlone ==
    \/ built + 1 \in Samplers /\ construct
    \/ iter(1)
    \/ epoch <= MaxEpoch /\ next(1)
    \/ abandon(1)

SpecSamplerAlone == InitSampler /\ [][NextSamplerAlone]_vars

\* Two generators of one sampler in use at once, their next() calls in any
\* order: both read and write the sampler's epoch and rng.
NextSamplerInterleaved ==
    \/ \E g \in Slots : iter(g)
    \/ \E g \in Slots : epoch <= MaxEpoch /\ next(g)
    \/ \E g \in Slots : abandon(g)

SpecSamplerInterleaved == InitSampler /\ [][NextSamplerInterleaved]_vars

\* ------------------------- a traversal of the dataset in sampler order
\* for i in sampler: dataset[i], once, on a dataset nothing has read yet; the
\* sampler is ShardListSampler(dataset, seed=..., shufflefirst=...).
InitTraversal ==
    /\ \E ls \in ShardLists :
           shards = [k \in DOMAIN ls |-> [url |-> k, nsamples |-> ls[k]]]
    /\ cache_size \in 1..MaxCap
    /\ InitCacheFields
    /\ seed \in Seeds
    /\ shufflefirst \in BOOLEAN
    /\ ranges = ShardListSampler_ranges(lengths)
    /\ epoch = 0
    /\ rng = -1
    /\ gens = [g \in Slots |-> NoGen]
    /\ built = 1
    /\ completed = {}
    /\ NoGrouper
    /\ NoLocalizer

\* The indices the loop has drawn from the sampler so far.
Yielded == gens[1].out

\* The loop holds an index that it has not passed to dataset[i] yet.
Pending == gens[1].pc = "suspended" /\ accesses < Len(Yielded)

\* dataset[i] raised: the exception leaves the loop.
Failed == ret.kind \notin {"none", "sample"}

NextTraversal ==
    \/ gens[1].pc = "none" /\ iter(1)
    \/ ~Pending /\ ~Failed /\ next(1)
    \/ Pending /\ \E fetch_ok \in BOOLEAN :
                      getitem(Yielded[Len(Yielded)], fetch_ok)
    \/ Failed /\ abandon(1)

SpecTraversal == InitTraversal /\ [][NextTraversal]_vars

\* ------------------------------------------------------------- claims
\* The global indices of shard k (Python position): [RangeStart(k), RangeEnd(k)).
RangeStart(k) == SumTo(lengths, k)
RangeEnd(k) == SumTo(lengths, k + 1)

ValidIndex(i) == 0 <= i /\ i < SumTo(lengths, Len(shards))

\* C1: for every valid global index i, get(i) resolves to the one shard k
\* whose cumulative range contains i, requests that shard's url from the
\* cache, and uses the local index i - RangeStart(k), which lies in
\* [0, nsamples of shard k).
C1_IndexResolution ==
    (ret.op = "getitem" /\ ValidIndex(ret.index)) =>
        /\ ret.shard_idx \in 0..(Len(shards) - 1)
        /\ RangeStart(ret.shard_idx) <= ret.index
        /\ ret.index < RangeEnd(ret.shard_idx)
        /\ \A j \in 0..(Len(shards) - 1) :
               (RangeStart(j) <= ret.index /\ ret.index < RangeEnd(j))
                   => j = ret.shard_idx
        /\ ret.accessed
        /\ ret.url = shards[ret.shard_idx + 1].url
        /\ ret.inner_idx = ret.index - RangeStart(ret.shard_idx)
        /\ 0 <= ret.inner_idx
        /\ ret.inner_idx < shards[ret.shard_idx + 1].nsamples
        /\ (ret.kind = "sample" => ret.pos = ret.inner_idx)

\* C1 witness: a sample read at a non-zero local index of a later shard.
C1_Witness ==
    /\ ret.op = "getitem" /\ ValidIndex(ret.index) /\ ret.kind = "sample"
    /\ ret.shard_idx > 0 /\ ret.inner_idx > 0

\* C2: a descriptor with nsamples 0 takes no valid index, wherever it sits:
\* the shard a valid index resolves to has samples, and the url requested
\* from the cache is not that of an empty shard; with lengths [2, 0, 1]
\* indices 0-1 are shard 0 local 0-1 and index 2 is shard 2 local 0.
C2_EmptyShardSkipped ==
    (ret.op = "getitem" /\ ValidIndex(ret.index)) =>
        /\ ret.shard_idx < Len(shards)
        /\ shards[ret.shard_idx + 1].nsamples > 0
        /\ \A k \in DOMAIN shards :
               shards[k].nsamples = 0 => ret.url # shards[k].url
        /\ lengths = <<2, 0, 1>> =>
               /\ ret.index \in {0, 1} =>
                      ret.shard_idx = 0 /\ ret.inner_idx = ret.index
               /\ ret.index = 2 => ret.shard_idx = 2 /\ ret.inner_idx = 0

\* C2 witness: a valid index resolved past two empty shards in a row, the
\* first of them at the head of the list.
C2_Witness ==
    /\ ret.op = "getitem" /\ ValidIndex(ret.index) /\ ret.kind = "sample"
    /\ Len(shards) = 3
    /\ shards[1].nsamples = 0 /\ shards[2].nsamples = 0
    /\ ret.shard_idx = 2

\* C3 (as claimed): every get(i) with i outside [0, total), above or below,
\* fails with an index error before any shard is requested from the cache.
C3_OutOfRangeFails ==
    (ret.op = "getitem" /\ ~ValidIndex(ret.index)) =>
        (ret.kind = "IndexError" /\ ~ret.accessed)

\* The urls resident in a cache.
Resident(c) == {c[k].key : k \in DOMAIN c}

\* The resident urls whose last hit or insertion is the oldest.
Oldest(c) == {u \in Resident(c) : \A w \in Resident(c) : last_used[u] <= last_used[w]}

\* One get_shard step that returns: a miss exactly when the url was not
\* resident; a miss with cache_size entries resident drops exactly the
\* resident url used least recently and releases only it; any other get
\* drops nothing.
C4_Step ==
    (ret'.op = "get_shard" /\ ret'.kind = "shard") =>
        /\ ret'.missed = (ret'.url \notin Resident(lru))
        /\ IF ret'.missed /\ Len(lru) = cache_size
           THEN \E victim \in Oldest(lru) :
                    /\ Oldest(lru) = {victim}
                    /\ Resident(lru') = (Resident(lru) \ {victim}) \cup {ret'.url}
                    /\ Len(ret'.released) = 1
                    /\ ret'.released[1].key = victim
           ELSE /\ Resident(lru') = Resident(lru) \cup {ret'.url}
                /\ ret'.released = <<>>

\* With capacity 2: after 1, 2, 3 url 1 has been evicted and a following
\* get of 1 misses; after 1, 2, 1, 3 url 2 has been evicted and a following
\* get of 1 hits.
C4_Scenarios ==
    (cache_size = 2 /\ ret.op = "get_shard" /\ ret.kind = "shard") =>
        /\ history = <<1, 2, 3>> =>
               /\ Len(ret.released) = 1 /\ ret.released[1].key = 1
               /\ Resident(lru) = {2, 3}
        /\ history = <<1, 2, 3, 1>> => ret.missed
        /\ history = <<1, 2, 1, 3>> =>
               /\ Len(ret.released) = 1 /\ ret.released[1].key = 2
               /\ Resident(lru) = {1, 3}
        /\ history = <<1, 2, 1, 3, 1>> => ~ret.missed /\ ret.released = <<>>

\* C4: in a cache of capacity C, a miss with C entries resident evicts
\* exactly the resident entry whose last hit or insertion is the oldest, and
\* a hit refreshes recency; with C = 2, A B C evicts A (then A misses) and
\* A B A C evicts B (then A hits).
C4_LruEviction == [][C4_Step]_vars /\ []C4_Scenarios

\* C4 witness: capacity 2, the accesses 1, 2, 1, 3, 1 made, the last a hit.
C4_Witness ==
    /\ cache_size = 2 /\ history = <<1, 2, 1, 3, 1>>
    /\ ret.op = "get_shard" /\ ~ret.missed

\* C5: at most cache_size entries are resident, no url is resident twice,
\* and the reader get_shard returns is the resident entry of its url.
C5_CacheBounded ==
    /\ Len(lru) <= cache_size
    /\ \A j, k \in DOMAIN lru : lru[j].key = lru[k].key => j = k
    /\ (ret.op = "get_shard" /\ ret.kind = "shard") =>
           \E k \in DOMAIN lru : lru[k].key = ret.url /\ lru[k].value = ret.itf

\* C5 witness: a get that returned with the cache full after an eviction.
C5_Witness ==
    /\ ret.op = "get_shard" /\ ret.kind = "shard" /\ ret.missed
    /\ Len(lru) = cache_size /\ ret.released # <<>>

\* C6: a reader is open exactly when it is resident; a reader that left
\* the cache (evicted or cleared) has been closed exactly once; no reader
\* is held by two entries.
C6_OpenIffResident ==
    /\ \A id \in DOMAIN itfs :
           /\ (itfs[id].closed = 0) = (\E k \in DOMAIN lru : lru[k].value = id)
           /\ itfs[id].closed <= 1
    /\ \A j, k \in DOMAIN lru : lru[j].value = lru[k].value => j = k

\* C6 witness: one reader closed by an eviction, another by a clear, a third
\* resident and open.
C6_Witness ==
    /\ Len(itfs) >= 3 /\ Len(lru) = 1 /\ cache_size = 1
    /\ \E a, b \in DOMAIN itfs :
           a # b /\ itfs[a].closed = 1 /\ itfs[b].closed = 1
    /\ Len(history) = 1

\* One step of clear(): the cache is left empty and every reader resident
\* before is closed.  One get_shard step right after a clear(): a miss that
\* returns a reader built by this call.
C7_Step ==
    /\ ret'.op = "clear" =>
           /\ lru' = <<>>
           /\ \A k \in DOMAIN lru : itfs'[lru[k].value].closed = 1
    /\ (ret.op = "clear" /\ ret'.op = "get_shard" /\ ret'.kind = "shard") =>
           /\ ret'.missed
           /\ misses' = misses + 1
           /\ ret'.itf \notin DOMAIN itfs
           /\ itfs'[ret'.itf].closed = 0
           /\ itfs'[ret'.itf].source = ret'.url

\* C7: after close() of the dataset, that is clear() of its cache, the
\* cache holds no entry and every reader resident before it is closed; a
\* get after it is a miss that opens a fresh reader.
C7_ClearReleasesAll == [][C7_Step]_vars

\* C7 witness: two readers were resident, clear() closed both, and a get of
\* one of their urls missed and opened a third reader.
C7_Witness ==
    /\ cache_size = 2 /\ Len(itfs) = 3 /\ Len(lru) = 1
    /\ itfs[1].closed = 1 /\ itfs[2].closed = 1 /\ itfs[3].closed = 0
    /\ ret.op = "get_shard" /\ ret.missed /\ ret.itf = 3
    /\ itfs[1].source = ret.url

\* The sum of the per-shard sample counts.
Total == SumTo(lengths, Len(shards))

\* The shard (Python position) whose range of global indices holds i.
ShardOf(i) ==
    CHOOSE k \in 0..(Len(shards) - 1) : RangeStart(k) <= i /\ i < RangeEnd(k)

Sorted(q) == \A a, b \in DOMAIN q : a < b => q[a] < q[b]

\* C8: for every list of sample counts (zero counts included), seed, epoch
\* and value of shufflefirst, a traversal run to exhaustion has yielded each
\* index of [0, total) exactly once and nothing else.
C8_TraversalIsPermutation ==
    \A g \in Slots :
        gens[g].pc = "done" =>
            /\ Len(gens[g].out) = Total
            /\ {gens[g].out[p] : p \in DOMAIN gens[g].out} = 0..(Total - 1)

\* C8 witness: an exhausted traversal of epoch 1 over three shards, one of
\* them empty, whose output is not in ascending order.
C8_Witness ==
    /\ gens[1].pc = "done" /\ gens[1].epoch0 = 1
    /\ Len(shards) = 3 /\ \E k \in DOMAIN shards : shards[k].nsamples = 0
    /\ Total >= 3 /\ ~Sorted(gens[1].out)

\* The shard of each index yielded so far (-1 for an index outside [0, total)).
ShardsOf(out) ==
    [p \in DOMAIN out |->
        IF 0 <= out[p] /\ out[p] < Total THEN ShardOf(out[p]) ELSE -1]

\* No shard comes back: an index whose shard was yielded from before follows
\* directly on an index of that shard.
NoShardReturns(q) ==
    \A a, b \in DOMAIN q : (a < b /\ q[a] = q[b]) => q[b - 1] = q[b]

\* C9: in the output of a traversal, finished or not, the indices of one
\* shard's range form one block: once an index of a different shard has
\* been yielded, no further index of the earlier shard is yielded.
C9_ShardBlocksContiguous ==
    \A g \in Slots : NoShardReturns(ShardsOf(gens[g].out))

\* C9 witness: an exhausted traversal that visited the shards out of order,
\* a later shard's two indices before an earlier shard's two.
C9_Witness ==
    /\ gens[1].pc = "done" /\ Len(gens[1].out) >= 4
    /\ ShardOf(gens[1].out[1]) > ShardOf(gens[1].out[3])
    /\ ShardOf(gens[1].out[1]) = ShardOf(gens[1].out[2])
    /\ ShardOf(gens[1].out[3]) = ShardOf(gens[1].out[4])

\* C10: two traversals run to exhaustion by samplers built with the same
\* lengths, seed and shufflefirst, started at the same epoch counter value,
\* have yielded the same sequence.
C10_SameSeedEpochSameOrder ==
    \A a, b \in completed : a.epoch = b.epoch => a.out = b.out

\* C10 witness: two samplers have each finished a shuffled traversal of at
\* least three indices started at epoch 1.
C10_Witness ==
    \E a, b \in completed :
        /\ a.sampler # b.sampler /\ a.epoch = 1 /\ b.epoch = 1
        /\ Len(a.out) >= 3 /\ ~Sorted(a.out)

\* One access: a warning is printed exactly when the access returned a
\* sample, none was printed before, and after it accesses > 100 and
\* misses / accesses > 30%.
C11_Step ==
    ret'.op = "getitem" =>
        /\ warnings' \in {warnings, warnings + 1}
        /\ (warnings' = warnings + 1) =
               (/\ ret'.kind = "sample"
                /\ warnings = 0
                /\ accesses' > 100
                /\ 10 * misses' > 3 * accesses')

\* The accesses so far went round the shards in order, each one returned.
RoundRobin ==
    /\ Len(history) = accesses
    /\ \A p \in DOMAIN history : history[p] = ((p - 1) % Len(shards)) + 1

C11_Inv ==
    /\ warnings <= 1
    /\ accesses <= 100 => warnings = 0
    /\ (cache_size = 1 /\ Len(shards) >= 3 /\ RoundRobin) =>
           (warnings = 1) = (accesses >= 101)

\* C11: over a sequence of get(i) calls on one dataset the cache-health
\* warning is printed at most once: at the first access that returns a
\* sample with accesses > 100 and misses / accesses > 30% after it, never
\* while accesses <= 100 and never again; a capacity-1 cache over 3 shards
\* accessed round robin prints exactly one, at the 101st access.
C11_WarnOnce == [][C11_Step]_vars /\ []C11_Inv

\* C11 witness: a capacity-1 cache over 3 shards accessed round robin 103
\* times: every access missed, and one warning has been printed.
C11_Witness ==
    /\ cache_size = 1 /\ Len(shards) = 3 /\ RoundRobin
    /\ accesses = 103 /\ warnings = 1 /\ misses = 103

\* The Python positions of the members that grouping did not skip, in
\* archive order.
Kept ==
    SelectSeq([p \in 1..Len(names) |-> p - 1],
              LAMBDA i : has_dot(names[i + 1]))

KeyAt(i) == splitname(names[i + 1]).basename

ExtAt(i) == splitname(names[i + 1]).extension

RECURSIVE Flatten(_)
Flatten(gs) == IF gs = <<>> THEN <<>> ELSE Head(gs) \o Flatten(Tail(gs))

\* The number of maximal runs of equal key among the members kept.
NumRuns ==
    Cardinality({p \in DOMAIN Kept :
                    p = 1 \/ KeyAt(Kept[p]) # KeyAt(Kept[p - 1])})

\* The groups are the maximal runs of equal key among the members kept, in
\* archive order.
GroupsAreRuns ==
    /\ Flatten(samples) = Kept
    /\ \A g \in DOMAIN samples :
           /\ samples[g] # <<>>
           /\ \A a, b \in DOMAIN samples[g] :
                  KeyAt(samples[g][a]) = KeyAt(samples[g][b])
    /\ \A g \in 1..(Len(samples) - 1) :
           KeyAt(samples[g][Len(samples[g])]) # KeyAt(samples[g + 1][1])
    /\ Len(samples) = NumRuns

\* get(i) was called with i in [0, length()).
GotGroup ==
    tarret.kind # "none" /\ 0 <= tarret.idx /\ tarret.idx < Len(samples)

Group == samples[tarret.idx + 1]

Members == {Group[a] : a \in DOMAIN Group}

\* The sample-key field holds the key of the run.
KeyFieldSet ==
    \E p \in DOMAIN tarret.sample :
        /\ tarret.sample[p][1] = KeyField
        /\ tarret.sample[p][2] = KeyAt(Group[1])

\* For a.jpg a.txt b.jpg c.jpg c.txt: three groups, and get(1) has an
\* entry for the extension of b.jpg and the sample-key b.
FiveNamesCase ==
    names = FiveNames =>
        /\ Len(samples) = 3
        /\ (GotGroup /\ tarret.idx = 1) =>
               /\ tarret.kind = "sample"
               /\ \E p \in DOMAIN tarret.sample :
                      /\ tarret.sample[p][1] = <<".", "j", "p", "g">>
                      /\ tarret.sample[p][2] = 2
               /\ \E p \in DOMAIN tarret.sample :
                      /\ tarret.sample[p][1] = KeyField
                      /\ tarret.sample[p][2] = <<"b">>

LastWithExt(m) == Max({n \in Members : ExtAt(n) = ExtAt(m)})

LastSlash(fname) == Max({0} \cup Positions(fname, "/"))

\* The "." of a name that follow its last path separator.
DotsOfBasename(fname) == {p \in Positions(fname, ".") : p > LastSlash(fname)}

NoExtension(fname) == DotsOfBasename(fname) = {}

\* The split at the first "." following the last path separator.
SplitAtFirstDot(fname) ==
    [basename |-> SubSeq(fname, 1, Min(DotsOfBasename(fname)) - 1),
     extension |-> SubSeq(fname, Min(DotsOfBasename(fname)), Len(fname))]

\* The Python positions of the members that have an extension.
WithExtension ==
    SelectSeq([p \in 1..Len(names) |-> p - 1],
              LAMBDA i : ~NoExtension(names[i + 1]))

\* C20 (as claimed): a member whose name has no "." after its last path
\* separator is in no group, does not count towards length() and does not
\* split the run around it; every other member is split into key and
\* extension at the first "." following the last path separator.
C20_NoExtensionSkipped ==
    /\ Flatten(samples) = WithExtension
    /\ Len(samples) =
           Cardinality({p \in DOMAIN WithExtension :
               \/ p = 1
               \/ SplitAtFirstDot(names[WithExtension[p] + 1]).basename
                      # SplitAtFirstDot(names[WithExtension[p - 1] + 1]).basename})
    /\ \A g \in DOMAIN samples : \A a \in DOMAIN samples[g] :
           ~NoExtension(names[samples[g][a] + 1]) =>
               splitname(names[samples[g][a] + 1])
                   = SplitAtFirstDot(names[samples[g][a] + 1])

\* The rows of the table for one shard identifier.
RowsOf(rows, shard) == {p \in DOMAIN rows : rows[p].url = shard}

\* After f(shard) the table holds one row for shard, with the name returned.
C13_Inv ==
    local.called =>
        /\ Cardinality(RowsOf(store, local.shard)) = 1
        /\ \A p \in RowsOf(store, local.shard) :
               store[p].path = local.path.name

\* f(shard) again, right after f(shard), returns the same path.
C13_Step ==
    (local.called /\ local'.shard = local.shard) => local'.path = local.path

\* C13 (as claimed): after the hashed-directory Localizer has been applied
\* to a shard identifier, ordinary or pipe-style, the store holds exactly
\* one row for it, mapping it to the local name just returned; applying it
\* again returns the same path and leaves one row.
C13_StoreHoldsMapping == []C13_Inv /\ [][C13_Step]_vars


\* One call of the cache: every get counts as an access; a get that returns
\* counts as a miss, and sets the flag, exactly when its url was not
\* resident; clear() leaves both counters.
C15_Step ==
    /\ ret'.op = "get_shard" =>
           /\ accesses' = accesses + 1
           /\ ret'.kind = "shard" =>
                  /\ misses' = misses + (IF ret'.url \in Resident(lru)
                                         THEN 0 ELSE 1)
                  /\ last_missed' = (ret'.url \notin Resident(lru))
    /\ ret'.op = "clear" => (accesses' = accesses /\ misses' = misses)

C15_Inv ==
    /\ misses <= accesses
    /\ ret.op = "init" => (accesses = 0 /\ misses = 0)

\* C15: accesses is the number of get calls, misses the number of those
\* made while the url was not resident, misses <= accesses, the flag tells
\* whether the most recent get that returned was a miss, and clear() changes
\* neither counter.
C15_CountersExact == [][C15_Step]_vars /\ []C15_Inv

\* C15 witness: four gets in a row that all returned, two of them misses,
\* the last one a hit.
C15_Witness ==
    /\ ret.op = "get_shard" /\ ret.kind = "shard"
    /\ Len(history) = 4 /\ accesses = 4 /\ misses = 2 /\ ~last_missed

\* One get of a url that is not resident, its fetch failing: the call
\* raises after one fetch and leaves the entries, their order, the readers
\* and the miss counter as they were.
C17_Step ==
    \A url \in 1..Len(shards) :
        (url \notin Resident(lru) /\ get_shard(url, FALSE)) =>
            /\ ret'.kind = "FetchError"
            /\ ret'.fetches = 1
            /\ lru' = lru
            /\ itfs' = itfs
            /\ misses' = misses
            /\ ret'.released = <<>>
            /\ url \notin Resident(lru')

\* C17: when the fetch fails during a miss, get fails with that error after
\* a single fetch attempt and the cache is left as before the call: the same
\* entries in the same recency order, nothing evicted or closed, the failed
\* shard not resident, the miss counter unchanged.
C17_FailedFetchLeavesCache == [][C17_Step]_vars

\* C17 witness: a fetch failed while the cache was full; both entries are
\* still resident.
C17_Witness ==
    /\ ret.op = "get_shard" /\ ret.kind = "FetchError" /\ ret.fetches = 1
    /\ cache_size = 2 /\ Len(lru) = 2 /\ misses = 2 /\ accesses = 3

\* One get(i): the cleanup collaborator runs once when the shard asked for
\* was not resident and has been opened and inserted by this access, and
\* not at all otherwise (a hit, a failed fetch, an index that resolves to
\* no shard).
C16_Step ==
    ret'.op = "getitem" =>
        IF ret'.accessed /\ ret'.kind # "FetchError"
               /\ ret'.url \notin Resident(lru)
        THEN /\ cleanup_runs' = cleanup_runs + 1
             /\ ret'.url \in Resident(lru')
             /\ ret'.fetches = 1
        ELSE cleanup_runs' = cleanup_runs

\* C16: on a dataset with a cleanup collaborator the collaborator is
\* invoked during get(i) exactly when that access was a cache miss: once
\* after each miss, the shard by then opened and inserted, and never during
\* an access that hits.
C16_CleanupIffMiss == [][C16_Step]_vars

\* C16 witness: hits and misses have both happened and the cleanup
\* collaborator has run once for every miss, fewer times than there were
\* accesses; the last access was a miss that followed hits.
C16_Witness ==
    /\ ret.op = "getitem" /\ ret.missed
    /\ misses >= 2 /\ accesses > misses + 2
    /\ cleanup_runs = misses

IsPrefix(a, b) == Len(a) <= Len(b) /\ SubSeq(b, 1, Len(a)) = a

\* The generator has run at least its first line.
Started(g) == gens[g].pc \in {"suspended", "closed", "done"}

NonDecreasing(q) == \A a, b \in DOMAIN q : a < b => q[a] <= q[b]

\* One step of a sampler: the epoch counter goes up by one when a
\* traversal reaches its end, is 0 for a sampler just built, and is left
\* alone by every other step (a yield, a new generator, an abandoned one).
C18_Step ==
    IF built' # built THEN epoch' = 0
    ELSE IF \E g \in Slots : gens'[g].pc = "done" /\ gens[g].pc # "done"
    THEN epoch' = epoch + 1
    ELSE epoch' = epoch

\* The epoch counter is the number of traversals this sampler has run to
\* exhaustion; what a traversal has yielded, abandoned or not, is the
\* beginning of what every finished traversal started at the same epoch
\* yielded; at epoch 0 without shufflefirst the shards come in ascending
\* order.
C18_Inv ==
    /\ epoch = Cardinality({c \in completed : c.sampler = built})
    /\ \A g \in Slots : Started(g) =>
           /\ gens[g].epoch0 <= epoch
           /\ \A c \in completed :
                  c.epoch = gens[g].epoch0 => IsPrefix(gens[g].out, c.out)
           /\ (gens[g].epoch0 = 0 /\ ~shufflefirst) =>
                  NonDecreasing(ShardsOf(gens[g].out))

\* C18: the epoch counter starts at 0, goes up by exactly 1 when a
\* traversal is consumed to exhaustion and is unchanged by a traversal
\* started and abandoned, so the traversal after an abandoned one repeats
\* the same (seed, epoch) sequence; at epoch 0 without shufflefirst the
\* shard blocks are visited in ascending shard order.
C18_EpochCounts == [][C18_Step]_vars /\ []C18_Inv

\* C18 witness: the second sampler finished epoch 0, then abandoned a
\* traversal of epoch 1 after two indices; its epoch counter is still 1 and
\* the first sampler's finished traversal of epoch 1 began with the same
\* two indices.
C18_Witness ==
    /\ built = 2 /\ epoch = 1
    /\ gens[1].pc = "closed" /\ gens[1].epoch0 = 1 /\ Len(gens[1].out) = 2
    /\ \E c \in completed :
           c.sampler = 1 /\ c.epoch = 1 /\ IsPrefix(gens[1].out, c.out)

\* What a traversal yields when it runs alone from a sampler whose epoch
\* counter is e: next() after next() of one generator until it ends.
RECURSIVE RunAlone(_)
RunAlone(r) ==
    IF r.gen.pc = "done" THEN r.gen.out
    ELSE RunAlone(gen_next(r.sampler, r.gen))

AloneOut(e) ==
    RunAlone([sampler |-> [epoch |-> e, rng |-> -1],
              gen |-> [NoGen EXCEPT !.pc = "created"]])

\* C19 (as claimed): with two traversals of one sampler in progress at
\* once, consumed in any interleaving, each yields the sequence it would
\* yield if it ran alone at the (seed, epoch) it started with.
C19_InterleavedAsAlone ==
    \A g \in Slots :
        Started(g) => IsPrefix(gens[g].out, AloneOut(gens[g].epoch0))

\* The outcome of get(g - 1) on the archive, computed for every group.
SampleOf(g) == read_members(names, samples[g], None, <<>>)

\* C22: whatever the member names (names with an empty key, skipped names
\* without an extension among them), every group of the grouping pass passes
\* the same-key assertion of get(i): no call of get fails with the
\* malformed-sample failure, and get(i) returns a sample for every i in
\* [0, length()).
C22_NoMalformedSample ==
    /\ \A g \in DOMAIN samples : SampleOf(g).kind = "sample"
    /\ tarret.kind # "AssertionError"
    /\ GotGroup => tarret.kind = "sample"

\* C22 witness: get(i) of a group of two members with the empty key that
\* stand on either side of a skipped member.
C22_Witness ==
    /\ GotGroup /\ tarret.kind = "sample"
    /\ Len(Group) = 2 /\ KeyAt(Group[1]) = <<>>
    /\ \E p \in DOMAIN names :
           ~has_dot(names[p]) /\ Group[1] < p - 1 /\ p - 1 < Group[2]
    /\ \E p \in DOMAIN tarret.sample :
           tarret.sample[p][1] = KeyField /\ tarret.sample[p][2] = <<>>

\* The shards that hold samples.
NonEmpty == {k \in DOMAIN shards : shards[k].nsamples > 0}

\* The fetches of shard k (TLA+ position): the readers built for its url.
MissesOf(k) ==
    Cardinality({o \in DOMAIN itfs : itfs[o].source = shards[k].url})

\* The shard (Python position) whose block of the sampler holds index i.
BlockOf(i) ==
    CHOOSE k \in 0..(Len(ranges) - 1) :
        ranges[k + 1][1] <= i /\ i < ranges[k + 1][2]

\* The traversal ran to its end: every index was drawn and read.
TraversalDone == gens[1].pc = "done"

\* C21: the sampler's ranges are the dataset's cumulative ranges; every
\* index the sampler yields inside the block of shard k is resolved by get
\* to shard k; and one full traversal in sampler order, from an empty cache
\* of capacity >= 1 over distinct shard ids, misses the cache exactly once
\* for each shard that holds samples and never for an empty shard.
C21_TraversalMissesOncePerShard ==
    /\ \A k \in DOMAIN ranges :
           ranges[k] = <<RangeStart(k - 1), RangeEnd(k - 1)>>
    /\ (ret.op = "getitem" /\ gens[1].pc = "suspended" /\ ~Pending) =>
           /\ ret.index = Yielded[Len(Yielded)]
           /\ ret.shard_idx = gens[1].shardperm[gens[1].k]
           /\ ret.shard_idx = BlockOf(ret.index)
           /\ ret.url = shards[ret.shard_idx + 1].url
    /\ \A p \in DOMAIN history :
           history[p] = shards[BlockOf(Yielded[p]) + 1].url
    /\ \A k \in DOMAIN shards :
           MissesOf(k) <= 1 /\ (k \notin NonEmpty => MissesOf(k) = 0)
    /\ misses = Len(itfs)
    /\ TraversalDone =>
           /\ accesses = Total
           /\ misses = Cardinality(NonEmpty)
           /\ \A k \in NonEmpty : MissesOf(k) = 1

\* C21 witness: a finished traversal of a dataset with an empty shard and
\* two shards that hold samples, visited in shuffled order through a cache
\* of one shard: two misses, and at least one hit.
C21_Witness ==
    /\ TraversalDone
    /\ cache_size = 1
    /\ Cardinality(NonEmpty) = 2 /\ Len(shards) = 3
    /\ gens[1].shardperm # range_list(0, Len(ranges))
    /\ misses = 2 /\ accesses > 2

====
